---------------------------- MODULE Spec2Model ----------------------------
(***************************************************************************)
(* Model of the TaskBuddy economic-analysis backend                        *)
(* (economics/backend): BudgetManagementService and CostEstimationService. *)
(*                                                                         *)
(* Both services are stateless: every operation is a function of its       *)
(* arguments.  The state machine is one request at a time: from "idle" an  *)
(* operation is called with arguments drawn from bounded sets, its result  *)
(* is recorded, and Respond returns to "idle".                             *)
(*                                                                         *)
(* Numbers.  Python computes in IEEE doubles; the model computes in exact  *)
(* rationals [num, den].  A rational with den = 0 stands for the           *)
(* ZeroDivisionError a Python "/" raises.  round(x, 2) is Round2, which    *)
(* yields an integer number of hundredths (round-half-even).               *)
(***************************************************************************)
EXTENDS Integers, Sequences, FiniteSets

VARIABLES op, args, result

vars == <<op, args, result>>

(***************************************************************************)
(* Bounds of the model.                                                    *)
(***************************************************************************)
MaxLen == 3
MaxAmt == 3
MaxMonths == 3
MaxCost == 2
Margin == 1

(***************************************************************************)
(* Exact rational arithmetic.                                              *)
(***************************************************************************)
Abs(x) == IF x < 0 THEN -x ELSE x

Sign(x) == IF x > 0 THEN 1 ELSE IF x < 0 THEN -1 ELSE 0

RECURSIVE GCD(_, _)
GCD(a, b) == IF b = 0 THEN a ELSE GCD(b, a % b)

\* n/d in lowest terms with a positive denominator; d = 0 is kept as the
\* marker of a division by zero.
Rat(n, d) ==
    IF d = 0 THEN [num |-> n, den |-> 0]
    ELSE LET g == GCD(Abs(n), Abs(d))
             s == IF d < 0 THEN -1 ELSE 1
         IN  [num |-> s * (n \div g), den |-> s * (d \div g)]

Whole(n) == [num |-> n, den |-> 1]

Raised(x) == x.den = 0

RatAdd(x, y) ==
    IF Raised(x) \/ Raised(y) THEN [num |-> 0, den |-> 0]
    ELSE Rat(x.num * y.den + y.num * x.den, x.den * y.den)

RatSub(x, y) ==
    IF Raised(x) \/ Raised(y) THEN [num |-> 0, den |-> 0]
    ELSE Rat(x.num * y.den - y.num * x.den, x.den * y.den)

RatMul(x, y) ==
    IF Raised(x) \/ Raised(y) THEN [num |-> 0, den |-> 0]
    ELSE Rat(x.num * y.num, x.den * y.den)

\* Python's "/": raises ZeroDivisionError when the divisor is zero.
RatDiv(x, y) ==
    IF Raised(x) \/ Raised(y) THEN [num |-> 0, den |-> 0]
    ELSE Rat(x.num * y.den, x.den * y.num)

RatSign(x) == Sign(x.num)

RatLeq(x, y) == x.num * y.den <= y.num * x.den

RatLt(x, y) == x.num * y.den < y.num * x.den

\* n/d (d > 0) rounded to the nearest integer, ties to even.
RoundHalfEven(n, d) ==
    LET q == n \div d
        r == n % d
    IN  IF 2 * r < d THEN q
        ELSE IF 2 * r > d THEN q + 1
        ELSE IF q % 2 = 0 THEN q ELSE q + 1

\* round(x, 2): the result in hundredths.
Round2(x) == RoundHalfEven(100 * x.num, x.den)

\* A value given in hundredths, as a rational.
Hundredths(c) == Rat(c, 100)

RECURSIVE SumSeq(_)
SumSeq(s) == IF s = <<>> THEN 0 ELSE Head(s) + SumSeq(Tail(s))

SeqsUpTo(S, n) == UNION {[1..k -> S] : k \in 0..n}

\* Python's None.
None == [kind |-> "None"]

ZeroDivisionError == [kind |-> "ZeroDivisionError"]

(***************************************************************************)
(* BudgetManagementService.calculate_payback_period                        *)
(***************************************************************************)
\* A faulty variant of the loop: the interpolation starts from month instead
\* of month - 1.
RECURSIVE PaybackLoopFromMonth(_, _, _)
PaybackLoopFromMonth(flows, month, cumulative) ==
    IF flows = <<>> THEN None
    ELSE LET cash_flow == Head(flows)
             cumulative_cash_flow == cumulative + cash_flow
         IN  IF cumulative_cash_flow >= 0
             THEN LET previous_cumulative == cumulative_cash_flow - cash_flow
                      fraction == RatDiv(Whole(Abs(previous_cumulative)), Whole(cash_flow))
                  IN  IF Raised(fraction) THEN ZeroDivisionError
                      ELSE [kind |-> "value",
                            value |-> RatAdd(Whole(month), fraction)]
             ELSE PaybackLoopFromMonth(Tail(flows), month + 1, cumulative_cash_flow)

\* The loop over enumerate(cash_flows[1:], 1): flows is what is left of
\* cash_flows[1:], month the index of its head, cumulative the running sum.
RECURSIVE PaybackLoop(_, _, _)
PaybackLoop(flows, month, cumulative) ==
    IF flows = <<>> THEN None
    ELSE LET cash_flow == Head(flows)
             cumulative_cash_flow == cumulative + cash_flow
         IN  IF cumulative_cash_flow >= 0
             THEN LET previous_cumulative == cumulative_cash_flow - cash_flow
                      fraction == RatDiv(Whole(Abs(previous_cumulative)), Whole(cash_flow))
                  IN  IF Raised(fraction) THEN ZeroDivisionError
                      ELSE [kind |-> "value",
                            value |-> RatAdd(Whole(month - 1), fraction)]
             ELSE PaybackLoop(Tail(flows), month + 1, cumulative_cash_flow)

calculate_payback_period(initial_investment, cash_flows) ==
    PaybackLoop(SubSeq(cash_flows, 2, Len(cash_flows)), 1, -Abs(initial_investment))

(***************************************************************************)
(* BudgetManagementService.calculate_roi                                   *)
(***************************************************************************)
\* A faulty variant: divides by the magnitude of the investment, as
\* calculate_financial_metrics does.
calculate_roi_by_magnitude(initial_investment, total_return) ==
    IF initial_investment = 0 THEN None
    ELSE LET roi == RatMul(RatDiv(Whole(total_return - initial_investment),
                                  Whole(Abs(initial_investment))), Whole(100))
         IN  IF Raised(roi) THEN ZeroDivisionError
             ELSE [kind |-> "value", value |-> roi]

calculate_roi(initial_investment, total_return) ==
    IF initial_investment = 0 THEN None
    ELSE LET roi == RatMul(RatDiv(Whole(total_return - initial_investment),
                                  Whole(initial_investment)), Whole(100))
         IN  IF Raised(roi) THEN ZeroDivisionError
             ELSE [kind |-> "value", value |-> roi]

(***************************************************************************)
(* BudgetManagementService.calculate_financial_metrics                     *)
(*                                                                         *)
(* 'npv' and 'irr_percent' come from numpy_financial (npf.npv, npf.irr,    *)
(* the latter inside try/except) and feed neither 'roi_percent' nor        *)
(* 'payback_period_months'; the model leaves these two fields out.         *)
(***************************************************************************)
Some(v) == [kind |-> "value", value |-> v]

\* A faulty variant of the loop: it stops only at a strictly positive sum.
RECURSIVE MetricsPaybackLoopStrict(_, _, _)
MetricsPaybackLoopStrict(flows, i, cumulative) ==
    IF flows = <<>> THEN None
    ELSE LET cumulative_cash_flow == cumulative + Head(flows)
         IN  IF cumulative_cash_flow > 0 THEN Some(i)
             ELSE MetricsPaybackLoopStrict(Tail(flows), i + 1, cumulative_cash_flow)

\* for i, cash_flow in enumerate(full_cash_flow): the first i whose running
\* sum is >= 0, else the initial None.
RECURSIVE MetricsPaybackLoop(_, _, _)
MetricsPaybackLoop(flows, i, cumulative) ==
    IF flows = <<>> THEN None
    ELSE LET cumulative_cash_flow == cumulative + Head(flows)
         IN  IF cumulative_cash_flow >= 0 THEN Some(i)
             ELSE MetricsPaybackLoop(Tail(flows), i + 1, cumulative_cash_flow)

calculate_financial_metrics(initial_investment, cash_flows) ==
    LET investment == IF initial_investment > 0 THEN -initial_investment
                      ELSE initial_investment
        full_cash_flow == <<investment>> \o cash_flows
        total_return == SumSeq(cash_flows)
        roi == IF investment # 0
               THEN RatMul(RatDiv(Whole(total_return + investment),
                                  Whole(Abs(investment))), Whole(100))
               ELSE Whole(0)
    IN  IF Raised(roi) THEN ZeroDivisionError
        ELSE [kind |-> "value",
              roi_percent |-> Round2(roi),
              payback_period_months |-> MetricsPaybackLoop(full_cash_flow, 0, 0)]

\* app.get_financial_metrics: data.get(key, default).
DefaultInvestment == 25000
DefaultCashFlow == 1000
DefaultCashFlowCount == 24

GetOr(field, default) == IF field = None THEN default ELSE field.value

get_financial_metrics(data) ==
    calculate_financial_metrics(
        GetOr(data.initial_investment, DefaultInvestment),
        GetOr(data.cash_flows, [i \in 1..DefaultCashFlowCount |-> DefaultCashFlow]))

(***************************************************************************)
(* BudgetManagementService._get_investment_decision                        *)
(*                                                                         *)
(* npv is a whole number, irr and profitability_index are in hundredths,   *)
(* payback_period in months; irr and payback_period may be None.  A        *)
(* rationale string is modelled by the rule that emitted it and its fixed  *)
(* text (the formatted number is left out).                                *)
(***************************************************************************)
IrrHigh == 15
IrrAcceptable == 10
PaybackQuick == 12
PaybackReasonable == 24
PiHigh == 120
PiPositive == 100

Rationale(rule, text, delta) == [rule |-> rule, text |-> text, delta |-> delta]

NpvRule(npv) ==
    IF npv > 0 THEN <<Rationale("NPV", "NPV is positive - project adds value", 2)>>
    ELSE <<Rationale("NPV", "NPV is negative - project destroys value", -2)>>

\* A faulty variant: an IRR equal to the 15 % threshold counts as exceeding it.
IrrRuleInclusive(irr) ==
    IF irr # None
    THEN IF irr.value >= IrrHigh
         THEN <<Rationale("IRR", "exceeds minimum threshold", 2)>>
         ELSE IF irr.value > IrrAcceptable
         THEN <<Rationale("IRR", "is acceptable", 1)>>
         ELSE <<Rationale("IRR", "is below threshold", -1)>>
    ELSE <<>>

IrrRule(irr) ==
    IF irr # None
    THEN IF irr.value > IrrHigh
         THEN <<Rationale("IRR", "exceeds minimum threshold", 2)>>
         ELSE IF irr.value > IrrAcceptable
         THEN <<Rationale("IRR", "is acceptable", 1)>>
         ELSE <<Rationale("IRR", "is below threshold", -1)>>
    ELSE <<>>

PaybackRule(payback_period) ==
    IF payback_period # None
    THEN IF payback_period.value <= PaybackQuick
         THEN <<Rationale("Payback", "Quick payback period", 1)>>
         ELSE IF payback_period.value <= PaybackReasonable
         THEN <<Rationale("Payback", "Reasonable payback period", 0)>>
         ELSE <<Rationale("Payback", "Long payback period", -1)>>
    ELSE <<>>

ProfitabilityRule(profitability_index) ==
    IF profitability_index > PiHigh
    THEN <<Rationale("PI", "High profitability index - excellent value creation", 1)>>
    ELSE IF profitability_index > PiPositive
    THEN <<Rationale("PI", "Positive profitability index - value creation", 0)>>
    ELSE <<Rationale("PI", "Poor profitability index - value destruction", -1)>>

RECURSIVE SumDeltas(_)
SumDeltas(rs) == IF rs = <<>> THEN 0 ELSE Head(rs).delta + SumDeltas(Tail(rs))

Decision(overall_score) ==
    IF overall_score >= 3 THEN "HIGHLY RECOMMENDED"
    ELSE IF overall_score >= 1 THEN "RECOMMENDED"
    ELSE IF overall_score >= -1 THEN "CONDITIONAL - Requires further analysis"
    ELSE "NOT RECOMMENDED"

RiskLevel(overall_score) ==
    IF overall_score >= 2 THEN "Low"
    ELSE IF overall_score >= 0 THEN "Medium"
    ELSE "High"

get_investment_decision(npv, irr, payback_period, profitability_index) ==
    LET applied == NpvRule(npv) \o IrrRule(irr) \o PaybackRule(payback_period)
                       \o ProfitabilityRule(profitability_index)
        overall_score == SumDeltas(applied)
    IN  [kind |-> "value",
         decision |-> Decision(overall_score),
         score |-> overall_score,
         recommendations |-> [i \in 1..Len(applied) |->
                                 [rule |-> applied[i].rule, text |-> applied[i].text]],
         risk_level |-> RiskLevel(overall_score)]

(***************************************************************************)
(* BudgetManagementService.track_budget_variance                           *)
(*                                                                         *)
(* planned_budget and actual_costs are dicts {phase: cost}, modelled as    *)
(* functions on a set of phases.  Rounded fields are in hundredths.        *)
(***************************************************************************)
Phases == {"design", "build", "test"}

RECURSIVE SumValues(_)
SumValues(d) ==
    IF DOMAIN d = {} THEN 0
    ELSE LET k == CHOOSE x \in DOMAIN d : TRUE
         IN  d[k] + SumValues([x \in DOMAIN d \ {k} |-> d[x]])

\* actual_costs.get(phase, 0)
DictGet(d, key, default) == IF key \in DOMAIN d THEN d[key] ELSE default

PhaseStatus(variance) ==
    IF variance < 0 THEN "Over Budget"
    ELSE IF variance = 0 THEN "On Budget"
    ELSE "Under Budget"

PhaseRecord(planned_cost, actual_cost) ==
    LET variance == planned_cost - actual_cost
        variance_percent == IF planned_cost > 0
                            THEN RatMul(RatDiv(Whole(variance), Whole(planned_cost)),
                                        Whole(100))
                            ELSE Whole(0)
    IN  [planned |-> planned_cost,
         actual |-> actual_cost,
         variance |-> variance,
         raised |-> Raised(variance_percent),
         variance_percent |-> IF Raised(variance_percent) THEN 0
                              ELSE Round2(variance_percent),
         status |-> PhaseStatus(variance)]

\* A faulty variant: the ratio is taken the other way round.
EstimateAtCompletionInverted(total_planned, total_actual, actual_costs) ==
    IF total_planned > 0 /\ SumValues(actual_costs) > 0
    THEN RatDiv(Whole(total_actual),
                RatDiv(Whole(total_planned), Whole(SumValues(actual_costs))))
    ELSE Whole(total_planned)

EstimateAtCompletion(total_planned, total_actual, actual_costs) ==
    IF total_planned > 0 /\ SumValues(actual_costs) > 0
    THEN RatDiv(Whole(total_actual),
                RatDiv(Whole(SumValues(actual_costs)), Whole(total_planned)))
    ELSE Whole(total_planned)

track_budget_variance(planned_budget, actual_costs) ==
    LET total_planned == SumValues(planned_budget)
        total_actual == SumValues(actual_costs)
        variance_analysis ==
            [phase \in DOMAIN planned_budget |->
                PhaseRecord(planned_budget[phase], DictGet(actual_costs, phase, 0))]
        total_variance == total_planned - total_actual
        total_variance_percent ==
            IF total_planned > 0
            THEN RatMul(RatDiv(Whole(total_variance), Whole(total_planned)), Whole(100))
            ELSE Whole(0)
        eac == EstimateAtCompletion(total_planned, total_actual, actual_costs)
    IN  IF \/ \E phase \in DOMAIN variance_analysis : variance_analysis[phase].raised
           \/ Raised(total_variance_percent)
           \/ Raised(eac)
        THEN ZeroDivisionError
        ELSE [kind |-> "value",
              phase_analysis |-> variance_analysis,
              summary |-> [total_planned |-> total_planned,
                           total_actual |-> total_actual,
                           total_variance |-> Round2(Whole(total_variance)),
                           total_variance_percent |-> Round2(total_variance_percent),
                           estimate_at_completion |-> Round2(eac)]]

(***************************************************************************)
(* BudgetManagementService.forecast_cash_flow                              *)
(*                                                                         *)
(* initial_revenue and the expense amounts are whole numbers, growth_rate  *)
(* a rational; expenses is a number or a dict of categories (isinstance).  *)
(* Rounded fields are in hundredths.                                       *)
(***************************************************************************)
RECURSIVE SumNet(_)
SumNet(forecast) ==
    IF forecast = <<>> THEN 0
    ELSE Head(forecast).net_cash_flow + SumNet(Tail(forecast))

RECURSIVE SumField(_, _)
SumField(forecast, f) ==
    IF forecast = <<>> THEN 0
    ELSE Head(forecast)[f] + SumField(Tail(forecast), f)

MonthlyExpenses(expenses) ==
    IF expenses.kind = "dict" THEN SumValues(expenses.items) ELSE expenses.amount

\* The value of 'cumulative_cash_flow' in the entry being appended: the sum
\* runs over forecast as it is while the dict literal is evaluated.
CumulativeCashFlow(forecast) ==
    Round2(Hundredths(SumNet(forecast)))

\* for month in range(1, months + 1)
RECURSIVE ForecastLoop(_, _, _, _, _, _)
ForecastLoop(forecast, current_revenue, growth_rate, expenses, month, months) ==
    IF month > months THEN forecast
    ELSE LET revenue == IF month > 1
                        THEN RatMul(current_revenue,
                                    RatAdd(Whole(1), RatDiv(growth_rate, Whole(12))))
                        ELSE current_revenue
             monthly_expenses == MonthlyExpenses(expenses)
             net_cash_flow == RatSub(revenue, Whole(monthly_expenses))
             entry == [month |-> month,
                       revenue |-> Round2(revenue),
                       expenses |-> Round2(Whole(monthly_expenses)),
                       net_cash_flow |-> Round2(net_cash_flow),
                       cumulative_cash_flow |->
                           CumulativeCashFlow(forecast)]
         IN  ForecastLoop(Append(forecast, entry), revenue, growth_rate, expenses,
                          month + 1, months)

forecast_cash_flow(initial_revenue, growth_rate, expenses, months) ==
    LET forecast == ForecastLoop(<<>>, Whole(initial_revenue), growth_rate,
                                 expenses, 1, months)
    IN  [kind |-> "value",
         forecast |-> forecast,
         total_revenue |-> Round2(Hundredths(SumField(forecast, "revenue"))),
         total_expenses |-> Round2(Hundredths(SumField(forecast, "expenses"))),
         total_net_cash_flow |-> Round2(Hundredths(SumNet(forecast)))]

(***************************************************************************)
(* CostEstimationService                                                   *)
(*                                                                         *)
(* A result is the dict the code returns: {'error': ...} or {'method':     *)
(* ..., 'total_cost_euros': ...}; costs are in hundredths of a euro.       *)
(***************************************************************************)
ErrorResult(message) == [error |-> message]

IsCost(v) == "total_cost_euros" \in DOMAIN v

\* coeffs['a'] * (kloc ** coeffs['b']) has a real exponent; the table holds
\* round(effort_pm, 2) and round(effort_pm * 6000, 2), in hundredths, as the
\* code's expressions evaluate for each project type at 1000 and 8000 lines.
CocomoEvaluated ==
    [organic       |-> [loc \in {1000, 8000} |->
                           IF loc = 1000 THEN [effort |-> 240, cost |-> 1440000]
                           ELSE [effort |-> 2130, cost |-> 12782240]],
     semi_detached |-> [loc \in {1000, 8000} |->
                           IF loc = 1000 THEN [effort |-> 300, cost |-> 1800000]
                           ELSE [effort |-> 3080, cost |-> 18481333]],
     embedded      |-> [loc \in {1000, 8000} |->
                           IF loc = 1000 THEN [effort |-> 360, cost |-> 2160000]
                           ELSE [effort |-> 4365, cost |-> 26191582]]]

calculate_cocomo(loc, project_type) ==
    IF loc <= 0 THEN ErrorResult("Lines of code must be positive.")
    ELSE LET coeffs == IF project_type \in DOMAIN CocomoEvaluated
                       THEN CocomoEvaluated[project_type]
                       ELSE CocomoEvaluated["semi_detached"]
         IN  [method |-> "COCOMO",
              effort_person_months |-> coeffs[loc].effort,
              total_cost_euros |-> coeffs[loc].cost]

fp_weights == [simple |-> 3, average |-> 4, complex |-> 6]

CostDriver == 30

calculate_function_points(function_points, complexity) ==
    IF function_points <= 0 THEN ErrorResult("Function points must be positive.")
    ELSE LET cost_per_fp == DictGet(fp_weights, complexity, 4) * CostDriver
             total_cost == function_points * cost_per_fp
         IN  [method |-> "Function Points",
              total_cost_euros |-> Round2(Whole(total_cost))]

\* estimates is [kind |-> "list", items |-> ...] or, for anything that is not
\* a list, [kind |-> "other", items |-> <<>>].
MinEstimates == 3

calculate_expert_judgment(estimates) ==
    IF estimates.kind # "list" \/ Len(estimates.items) < MinEstimates
    THEN ErrorResult("Provide at least three estimates: optimistic, most likely, pessimistic.")
    ELSE LET optimistic == estimates.items[1]
             most_likely == estimates.items[2]
             pessimistic == estimates.items[3]
             weighted_avg == RatDiv(Whole(optimistic + 4 * most_likely + pessimistic),
                                    Whole(6))
         IN  [method |-> "Expert Judgment (PERT)",
              total_cost_euros |-> Round2(weighted_avg)]

\* predicted_cost is self._regression_model.predict(input_data)[0]: the
\* output of the scikit-learn model fitted at construction, which the model
\* takes as a given rational.
MinimumCost == 5000

RatMax(x, y) == IF RatLt(x, y) THEN y ELSE x

calculate_linear_regression(loc_thousands, complexity_score, predicted_cost) ==
    [method |-> "Linear Regression",
     total_cost_euros |-> Round2(RatMax(Whole(MinimumCost), predicted_cost))]

DefaultLoc == 8000
DefaultFunctionPoints == 350
DefaultEstimates == [kind |-> "list", items |-> <<20000, 25000, 40000>>]
DefaultComplexity == 5

MethodKeys == <<"cocomo", "function_points", "expert_judgment", "linear_regression">>

\* {k: v['total_cost_euros'] for k, v in results.items() if 'total_cost_euros' in v}
CostsOf(results) ==
    SelectSeq([i \in 1..Len(MethodKeys) |-> results[MethodKeys[i]]], IsCost)

RECURSIVE SumCosts(_)
SumCosts(rs) ==
    IF rs = <<>> THEN 0 ELSE Head(rs).total_cost_euros + SumCosts(Tail(rs))

\* A faulty variant: the sum is divided by the number of methods, so that an
\* erring method counts as a cost of 0.
FinalRecommendationOverAllMethods(costs) ==
    LET final_estimate == Rat(SumCosts(costs), Len(MethodKeys))
    IN  RoundHalfEven(final_estimate.num, final_estimate.den)

\* round(np.mean(list(costs.values())), 2), the costs being in hundredths.
FinalRecommendation(costs) ==
    LET final_estimate == Rat(SumCosts(costs), Len(costs))
    IN  RoundHalfEven(final_estimate.num, final_estimate.den)

compare_all_methods(project_data, predicted_cost) ==
    LET loc == GetOr(project_data.loc, DefaultLoc)
        fp == GetOr(project_data.function_points, DefaultFunctionPoints)
        estimates == GetOr(project_data.expert_estimates, DefaultEstimates)
        complexity == GetOr(project_data.complexity_score, DefaultComplexity)
        results ==
            [cocomo |-> calculate_cocomo(loc, "semi_detached"),
             function_points |-> calculate_function_points(fp, "average"),
             expert_judgment |-> calculate_expert_judgment(estimates),
             linear_regression |->
                 calculate_linear_regression(Rat(loc, 1000), complexity, predicted_cost)]
        costs == CostsOf(results)
    IN  [kind |-> "value",
         cocomo |-> results.cocomo,
         function_points |-> results.function_points,
         expert_judgment |-> results.expert_judgment,
         linear_regression |-> results.linear_regression,
         final_recommendation |->
             IF costs # <<>> THEN Some(FinalRecommendation(costs)) ELSE None]

(***************************************************************************)
(* The requests.                                                           *)
(***************************************************************************)
Amounts == -MaxAmt..MaxAmt

CashFlows == SeqsUpTo(Amounts, MaxLen)

Init ==
    /\ op = "idle"
    /\ args = <<>>
    /\ result = None

\* cash_flows is the full series: period 0 (which the code skips) holds the
\* investment as a negative amount, or anything else.
CallPaybackPeriod ==
    /\ op = "idle"
    /\ \E initial_investment \in Amounts :
       \E cash_flows \in {<<>>} \cup
              {<<period0>> \o flows : period0 \in {-Abs(initial_investment), MaxAmt},
                                      flows \in CashFlows} :
          /\ op' = "calculate_payback_period"
          /\ args' = [initial_investment |-> initial_investment,
                      cash_flows |-> cash_flows]
          /\ result' = calculate_payback_period(initial_investment, cash_flows)

CallFinancialMetrics ==
    /\ op = "idle"
    /\ \E initial_investment \in {None} \cup {Some(a) : a \in Amounts},
          cash_flows \in {None} \cup {Some(c) : c \in CashFlows} :
          LET data == [initial_investment |-> initial_investment,
                       cash_flows |-> cash_flows]
          IN  /\ op' = "calculate_financial_metrics"
              /\ args' = [initial_investment |-> GetOr(initial_investment, DefaultInvestment),
                          cash_flows |-> GetOr(cash_flows,
                              [i \in 1..DefaultCashFlowCount |-> DefaultCashFlow])]
              /\ result' = get_financial_metrics(data)

CallInvestmentDecision ==
    /\ op = "idle"
    /\ \E npv \in -Margin..Margin,
          irr \in {None} \cup {Some(v) : v \in (IrrAcceptable - Margin)..(IrrHigh + Margin)},
          payback_period \in {None} \cup
              {Some(v) : v \in (PaybackQuick - Margin)..(PaybackReasonable + Margin)},
          profitability_index \in {PiPositive + d : d \in -Margin..Margin}
                                   \cup {PiHigh + d : d \in -Margin..Margin} :
          /\ op' = "_get_investment_decision"
          /\ args' = [npv |-> npv, irr |-> irr, payback_period |-> payback_period,
                      profitability_index |-> profitability_index]
          /\ result' = get_investment_decision(npv, irr, payback_period,
                                               profitability_index)

Dicts(keys, values) == UNION {[ks -> values] : ks \in SUBSET keys}

CallTrackBudgetVariance ==
    /\ op = "idle"
    /\ \E planned_budget \in Dicts(Phases, 0..MaxCost),
          actual_costs \in Dicts(Phases, 0..MaxCost) :
          /\ op' = "track_budget_variance"
          /\ args' = [planned_budget |-> planned_budget, actual_costs |-> actual_costs]
          /\ result' = track_budget_variance(planned_budget, actual_costs)

ExpenseCategories == {"salaries", "hosting"}

\* Yearly growth rates: none, 12 %, 60 %, 120 %, and a decline of 60 %.
GrowthRates == {Rat(0, 1), Rat(12, 100), Rat(3, 5), Rat(6, 5), Rat(-3, 5)}

CallForecastCashFlow ==
    /\ op = "idle"
    /\ \E initial_revenue \in 0..MaxAmt,
          growth_rate \in GrowthRates,
          expenses \in {[kind |-> "number", amount |-> a, items |-> <<>>] : a \in 0..MaxCost}
              \cup {[kind |-> "dict", amount |-> 0, items |-> d] :
                        d \in Dicts(ExpenseCategories, 0..MaxCost)},
          months \in 0..MaxMonths :
          /\ op' = "forecast_cash_flow"
          /\ args' = [initial_revenue |-> initial_revenue, growth_rate |-> growth_rate,
                      expenses |-> expenses, months |-> months]
          /\ result' = forecast_cash_flow(initial_revenue, growth_rate, expenses, months)

Estimates ==
    {[kind |-> "other", items |-> <<>>]}
        \cup {[kind |-> "list", items |-> e] : e \in SeqsUpTo(0..MaxCost, MaxLen)}

CallExpertJudgment ==
    /\ op = "idle"
    /\ \E estimates \in {[kind |-> "other", items |-> <<>>]}
              \cup {[kind |-> "list", items |-> e] : e \in SeqsUpTo(0..MaxAmt, MaxLen + 1)} :
          /\ op' = "calculate_expert_judgment"
          /\ args' = [estimates |-> estimates]
          /\ result' = [kind |-> "value", estimate |-> calculate_expert_judgment(estimates)]

\* What the fitted regression model may predict: below, at and above the
\* floor, at a tie of the rounding, and negative.
PredictedCosts == {Rat(-1000, 1), Rat(4999, 1), Rat(5000, 1), Rat(1000001, 200)}

CallCompareAllMethods ==
    /\ op = "idle"
    /\ \E loc \in {None} \cup {Some(v) : v \in {-1000, 0, 1000, 8000}},
          function_points \in {None} \cup {Some(v) : v \in -1..MaxCost},
          expert_estimates \in {None} \cup {Some(e) : e \in Estimates},
          complexity_score \in {None} \cup {Some(v) : v \in 1..MaxCost},
          predicted_cost \in PredictedCosts :
          LET project_data == [loc |-> loc, function_points |-> function_points,
                               expert_estimates |-> expert_estimates,
                               complexity_score |-> complexity_score]
          IN  /\ op' = "compare_all_methods"
              /\ args' = [project_data |-> project_data, predicted_cost |-> predicted_cost]
              /\ result' = compare_all_methods(project_data, predicted_cost)

CallRoi ==
    /\ op = "idle"
    /\ \E initial_investment \in Amounts, total_return \in Amounts :
          /\ op' = "calculate_roi"
          /\ args' = [initial_investment |-> initial_investment,
                      total_return |-> total_return]
          /\ result' = calculate_roi(initial_investment, total_return)

\* The service keeps nothing between requests.
Respond ==
    /\ op # "idle"
    /\ op' = "idle"
    /\ args' = <<>>
    /\ result' = None

Next ==
    \/ CallPaybackPeriod
    \/ CallRoi
    \/ CallExpertJudgment
    \/ CallCompareAllMethods
    \/ CallTrackBudgetVariance
    \/ CallForecastCashFlow
    \/ CallFinancialMetrics
    \/ CallInvestmentDecision
    \/ Respond

Spec == Init /\ [][Next]_vars

(***************************************************************************)
(* Properties.                                                             *)
(***************************************************************************)
Min(S) == CHOOSE x \in S : \A y \in S : x <= y

\* C1 (as stated): every entry of the forecast carries the sum of
\* net_cash_flow over the entries up to and including itself, so the last
\* entry's cumulative value equals total_net_cash_flow.
C1_CumulativeIsInclusive ==
    op = "forecast_cash_flow" =>
        LET forecast == result.forecast
        IN  /\ \A i \in 1..Len(forecast) :
                  forecast[i].cumulative_cash_flow = SumNet(SubSeq(forecast, 1, i))
            /\ Len(forecast) >= 1 =>
                  forecast[Len(forecast)].cumulative_cash_flow = result.total_net_cash_flow

C2_Loc == GetOr(args.project_data.loc, DefaultLoc)
C2_FunctionPoints == GetOr(args.project_data.function_points, DefaultFunctionPoints)
C2_Estimates == GetOr(args.project_data.expert_estimates, DefaultEstimates)

C2_CostOrZero(v) == IF IsCost(v) THEN v.total_cost_euros ELSE 0

C2_Count(v) == IF IsCost(v) THEN 1 ELSE 0

C2_Sum ==
    C2_CostOrZero(result.cocomo) + C2_CostOrZero(result.function_points)
        + C2_CostOrZero(result.expert_judgment) + C2_CostOrZero(result.linear_regression)

C2_N ==
    C2_Count(result.cocomo) + C2_Count(result.function_points)
        + C2_Count(result.expert_judgment) + C2_Count(result.linear_regression)

\* Every method key holds a result, and a method errors exactly on its
\* invalid input.
C2_AllMethodsAnswer ==
    /\ result.kind = "value"
    /\ \A i \in 1..Len(MethodKeys) :
          IsCost(result[MethodKeys[i]]) \/ "error" \in DOMAIN result[MethodKeys[i]]
    /\ IsCost(result.cocomo) <=> C2_Loc > 0
    /\ IsCost(result.function_points) <=> C2_FunctionPoints > 0
    /\ IsCost(result.expert_judgment) <=>
          (C2_Estimates.kind = "list" /\ Len(C2_Estimates.items) >= 3)
    /\ IsCost(result.linear_regression)

\* C2 (as stated): compare_all_methods answers for all four methods whatever
\* inputs are invalid, and final_recommendation is exactly the arithmetic
\* mean of the total_cost_euros of the methods that did not error, absent
\* only when all errored.
C2_RecommendationIsExactMean ==
    op = "compare_all_methods" =>
        /\ C2_AllMethodsAnswer
        /\ IF C2_N = 0 THEN result.final_recommendation = None
           ELSE /\ result.final_recommendation # None
                /\ result.final_recommendation.value * C2_N = C2_Sum

\* C2 (amended): as above, final_recommendation being that mean rounded to 2
\* decimals: it differs from the mean by at most half a hundredth.
C2_RecommendationIsRoundedMean ==
    op = "compare_all_methods" =>
        /\ C2_AllMethodsAnswer
        /\ IF C2_N = 0 THEN result.final_recommendation = None
           ELSE /\ result.final_recommendation # None
                /\ 2 * Abs(result.final_recommendation.value * C2_N - C2_Sum) <= C2_N

\* C2's case: two estimators erred, two did not, and their mean needed rounding.
C2_Witness ==
    /\ op = "compare_all_methods"
    /\ ~IsCost(result.cocomo)
    /\ ~IsCost(result.function_points)
    /\ IsCost(result.expert_judgment)
    /\ result.final_recommendation # None
    /\ result.final_recommendation.value * C2_N # C2_Sum

C3_NpvDelta == IF args.npv > 0 THEN 2 ELSE -2

C3_IrrDelta ==
    IF args.irr = None THEN 0
    ELSE IF args.irr.value > 15 THEN 2
    ELSE IF args.irr.value > 10 /\ args.irr.value <= 15 THEN 1
    ELSE -1

C3_PaybackDelta ==
    IF args.payback_period = None THEN 0
    ELSE IF args.payback_period.value <= 12 THEN 1
    ELSE IF args.payback_period.value > 24 THEN -1
    ELSE 0

C3_PiDelta ==
    IF args.profitability_index > 120 THEN 1
    ELSE IF args.profitability_index <= 100 THEN -1
    ELSE 0

C3_Rules ==
    <<"NPV">> \o (IF args.irr = None THEN <<>> ELSE <<"IRR">>)
        \o (IF args.payback_period = None THEN <<>> ELSE <<"Payback">>)
        \o <<"PI">>

\* C3: the score is the sum of the four rules' deltas (an absent IRR or
\* payback period adds nothing), the label and the risk level follow the
\* score's bands, and the rationale list holds one string per applied rule
\* in the order NPV, IRR, payback, profitability index.
C3_DecisionFollowsRules ==
    op = "_get_investment_decision" =>
        /\ result.score = C3_NpvDelta + C3_IrrDelta + C3_PaybackDelta + C3_PiDelta
        /\ result.decision = "HIGHLY RECOMMENDED" <=> result.score >= 3
        /\ result.decision = "RECOMMENDED" <=> result.score \in 1..2
        /\ result.decision = "CONDITIONAL - Requires further analysis"
              <=> result.score \in -1..0
        /\ result.decision = "NOT RECOMMENDED" <=> result.score < -1
        /\ result.risk_level = "Low" <=> result.score >= 2
        /\ result.risk_level = "Medium" <=> result.score \in 0..1
        /\ result.risk_level = "High" <=> result.score < 0
        /\ Len(result.recommendations) = Len(C3_Rules)
        /\ \A i \in 1..Len(C3_Rules) : result.recommendations[i].rule = C3_Rules[i]

\* C3's case: IRR absent, payback at the 12-month boundary, profitability
\* index at 1.0: three rules applied, score 2, Recommended with Low risk.
C3_Witness ==
    /\ op = "_get_investment_decision"
    /\ args.irr = None
    /\ args.payback_period = Some(12)
    /\ args.profitability_index = 100
    /\ result.score = 2
    /\ result.decision = "RECOMMENDED"
    /\ result.risk_level = "Low"
    /\ Len(result.recommendations) = 3

\* The series [-|initial_investment|, cf_1..cf_n]: its last index and its
\* cumulative cash flow at index i.
C4_N == IF args.cash_flows = <<>> THEN 0 ELSE Len(args.cash_flows) - 1

C4_Cumulative(i) ==
    -Abs(args.initial_investment) + SumSeq(SubSeq(args.cash_flows, 2, i + 1))

C4_Reached(first) == {i \in first..C4_N : C4_Cumulative(i) >= 0}

C4_Within(first) ==
    /\ result.kind = "value" =>
          /\ C4_Reached(first) # {}
          /\ LET k == Min(C4_Reached(first))
             IN  /\ RatLeq(Whole(k - 1), result.value)
                 /\ RatLeq(result.value, Whole(k))
    /\ result = None <=> C4_Reached(first) = {}

\* C4 (as stated): a returned payback period lies in [k-1, k], k the first
\* index of the series (index 0, the investment, included) with a
\* non-negative cumulative cash flow; None is returned exactly when no index
\* has one.
C4_PaybackWithinFirstIndex ==
    op = "calculate_payback_period" => C4_Within(0)

\* C4 (amended): the same with k the first of the periods 1..n with a
\* non-negative cumulative cash flow, and None returned exactly when none of
\* the periods 1..n has one.
C4_PaybackWithinFirstPeriod ==
    op = "calculate_payback_period" => C4_Within(1)

\* C4's case: the investment is recovered part-way through the second period.
C4_Witness ==
    /\ op = "calculate_payback_period"
    /\ args.initial_investment # 0
    /\ result.kind = "value"
    /\ result.value = Rat(3, 2)

\* C5 (as stated): for every non-zero investment of either sign the ROI has
\* the sign of (total_return - initial_investment); for 0 it is None.
C5_RoiSignMatches ==
    op = "calculate_roi" =>
        IF args.initial_investment = 0 THEN result = None
        ELSE /\ result.kind = "value"
             /\ RatSign(result.value) = Sign(args.total_return - args.initial_investment)

\* C5 (amended): for a positive investment the ROI has the sign of
\* (total_return - initial_investment), for a negative one the opposite
\* sign; for 0 it is None.
C5_RoiSignByInvestmentSign ==
    op = "calculate_roi" =>
        IF args.initial_investment = 0 THEN result = None
        ELSE /\ result.kind = "value"
             /\ RatSign(result.value) =
                    Sign(args.initial_investment)
                        * Sign(args.total_return - args.initial_investment)

\* C5's case: a negative investment and a larger return give a negative ROI.
C5_Witness ==
    /\ op = "calculate_roi"
    /\ args.initial_investment < 0
    /\ args.total_return > args.initial_investment
    /\ result.kind = "value"
    /\ RatSign(result.value) = -1

C6_Ordered(items) ==
    /\ Len(items) = 3
    /\ items[1] <= items[2]
    /\ items[2] <= items[3]

\* C6 (as stated): an accepted list [o, m, p] gives a cost within
\* [min(o,p), max(o,p)], and a list that is not exactly three ordered values
\* gives the error result.
C6_ExpertJudgmentWithinRange ==
    op = "calculate_expert_judgment" =>
        LET estimates == args.estimates
            r == result.estimate
        IN  /\ IsCost(r) =>
                  LET o == estimates.items[1]
                      p == estimates.items[3]
                  IN  /\ 100 * (IF o <= p THEN o ELSE p) <= r.total_cost_euros
                      /\ r.total_cost_euros <= 100 * (IF o <= p THEN p ELSE o)
            /\ ~(estimates.kind = "list" /\ C6_Ordered(estimates.items)) => ~IsCost(r)

C7_Series == <<-Abs(args.initial_investment)>> \o args.cash_flows

C7_NonNegativePrefixes ==
    {i \in 0..(Len(C7_Series) - 1) : SumSeq(SubSeq(C7_Series, 1, i + 1)) >= 0}

\* C7: payback_period_months is the smallest index of the series
\* [-|initial_investment|, cf_1..cf_n] whose prefix sum is >= 0, None when
\* there is none; for 25000 and 24 flows of 1000 it is None.
C7_PaybackIsFirstNonNegativePrefix ==
    op = "calculate_financial_metrics" =>
        /\ result.kind = "value"
        /\ IF C7_NonNegativePrefixes = {} THEN result.payback_period_months = None
           ELSE result.payback_period_months = Some(Min(C7_NonNegativePrefixes))
        /\ (args.initial_investment = 25000
               /\ args.cash_flows = [i \in 1..24 |-> 1000])
              => result.payback_period_months = None

\* C7's case: the endpoint's defaults, 25000 and 24 flows of 1000.
C7_Witness ==
    /\ op = "calculate_financial_metrics"
    /\ args.initial_investment = 25000
    /\ Len(args.cash_flows) = 24
    /\ result.payback_period_months = None

\* C8 (as stated): none of calculate_roi, calculate_payback_period,
\* calculate_financial_metrics and track_budget_variance ends in a
\* division by zero.
C8_NoDivisionByZero ==
    op \in {"calculate_roi", "calculate_payback_period",
            "calculate_financial_metrics", "track_budget_variance"}
        => result.kind # "ZeroDivisionError"

\* C9: estimate_at_completion equals total_planned, through the formula
\* (both totals positive) and through the fallback alike, whatever the
\* actual costs.
C9_EacIsTotalPlanned ==
    op = "track_budget_variance" =>
        /\ result.kind = "value"
        /\ result.summary.estimate_at_completion = 100 * SumValues(args.planned_budget)

\* C9's case: both totals positive and different, so the formula is used.
C9_Witness ==
    /\ op = "track_budget_variance"
    /\ result.kind = "value"
    /\ result.summary.total_planned > 0
    /\ result.summary.total_actual > result.summary.total_planned
    /\ result.summary.estimate_at_completion = 100 * result.summary.total_planned

RECURSIVE C10_SumOver(_, _)
C10_SumOver(analysis, f) ==
    IF DOMAIN analysis = {} THEN 0
    ELSE LET k == CHOOSE x \in DOMAIN analysis : TRUE
         IN  analysis[k][f] + C10_SumOver([x \in DOMAIN analysis \ {k} |-> analysis[x]], f)

\* C10 (as stated): the summary agrees with the per-phase records:
\* total_variance is the sum of their variances and total_actual the sum of
\* their actual values.
C10_SummaryMatchesPhases ==
    op = "track_budget_variance" =>
        /\ result.kind = "value"
        /\ result.summary.total_variance
              = 100 * C10_SumOver(result.phase_analysis, "variance")
        /\ result.summary.total_actual = C10_SumOver(result.phase_analysis, "actual")


=============================================================================
